---- MODULE Spec2Model ----
(***************************************************************************)
(* A model of the cppds containers: the open-addressing hash table behind  *)
(* cppds::map and cppds::set (linear probing without wrap-around, the      *)
(* stored hash 0 as the empty marker, growth by doubling with in-place     *)
(* reinsertion), the FNV-1 hasher they share, and the stack and queue      *)
(* adapters over the two vector classes.                                   *)
(*                                                                         *)
(* The map is instantiated with a 16-byte trivially copyable key type and  *)
(* a value type of the same size; the set with the same key type.  A       *)
(* std::size_t is 8 bytes (LP64).  A machine word is a little-endian tuple *)
(* of bytes, so that the 64-bit arithmetic of the hasher is exact.         *)
(***************************************************************************)
EXTENDS Integers, Sequences, FiniteSets, TLC

VARIABLES kind, caller, table, shadow, last, inserted, since, twin, recent,
          alloc,
          stack, stack_log, queue, queue_log,
          vec, vec_last, arr, arr_last, input, digest,
          other, block

vars == <<kind, caller, table, shadow, last, inserted, since, twin, recent,
          alloc,
          stack, stack_log, queue, queue_log,
          vec, vec_last, arr, arr_last, input, digest,
          other, block>>

\* The hash container with what its caller recorded, and the two adapters.
tables == <<kind, caller, table, shadow, last, inserted, since, twin, recent,
           alloc>>
adapters == <<stack, stack_log, queue, queue_log>>

\* A vector and a fixed array, each with the last call made on it.
sequences == <<vec, vec_last, arr, arr_last>>

\* A buffer of bytes and what __fnv1hash returned for it.
hasher == <<input, digest>>

\* A second vector, and the block the allocator was asked for on its own.
rest == <<other, block>>

(***************************************************************************)
(* Bounds of the model.                                                    *)
(***************************************************************************)
\* An insert that would grow a table beyond this capacity is not taken.
MaxCapacity == 8

\* The number of calls made on a stack or a queue.
MaxCalls == 6

\* The largest size a vector is grown to by insert.
MaxSize == 4

\* The longest buffer handed to the hasher on its own.
MaxBytes == 4

(***************************************************************************)
(* std::size_t arithmetic.                                                 *)
(***************************************************************************)
\* sizeof(std::size_t), the type of the accumulator of __fnv1hash.
SizeTBytes == 8

RECURSIVE BitXor(_, _)
\* a ^ b on naturals.
BitXor(a, b) ==
    IF a = 0 THEN b
    ELSE IF b = 0 THEN a
    ELSE (((a % 2) + (b % 2)) % 2) + 2 * BitXor(a \div 2, b \div 2)

\* (std::size_t) of an unsigned value given by its bytes: zero extension.
ToSizeT(bytes) ==
    [i \in 1..SizeTBytes |-> IF i <= Len(bytes) THEN bytes[i] ELSE 0]

SizeTZero == ToSizeT(<<>>)

RECURSIVE ColumnSum(_, _, _, _)
ColumnSum(a, b, k, i) ==
    IF i > k THEN 0
    ELSE a[i] * b[k - i + 1] + ColumnSum(a, b, k, i + 1)

RECURSIVE MulColumns(_, _, _, _)
MulColumns(a, b, k, carry) ==
    IF k > SizeTBytes THEN <<>>
    ELSE LET s == ColumnSum(a, b, k, 1) + carry
         IN  <<s % 256>> \o MulColumns(a, b, k + 1, s \div 256)

\* a * b on std::size_t: the product modulo 2^(8 * SizeTBytes).
SizeTMul(a, b) == MulColumns(a, b, 1, 0)

\* a ^ (size_t) byte: only the low byte changes.
SizeTXorByte(a, byte) == [a EXCEPT ![1] = BitXor(a[1], byte)]

RECURSIVE SizeTModFrom(_, _, _, _)
SizeTModFrom(a, m, i, r) ==
    IF i = 0 THEN r
    ELSE SizeTModFrom(a, m, i - 1, (r * 256 + a[i]) % m)

\* a % m for a std::size_t a and a small modulus m > 0.
SizeTMod(a, m) == SizeTModFrom(a, m, SizeTBytes, 0)

(***************************************************************************)
(* cppds::allocator<T>.  A pointer is null or names a block of as many     *)
(* bytes as were asked for.                                                *)
(***************************************************************************)
Null == [null |-> TRUE, bytes |-> SizeTZero]

\* std::malloc(size): a null pointer, which any request may get, or a block
\* of size bytes when size is below the 2^47 bytes of a user address space.
malloc(size) ==
    {Null} \cup IF size[6] < 128 /\ size[7] = 0 /\ size[8] = 0
                THEN {[null |-> FALSE, bytes |-> size]}
                ELSE {}

\* return (pointer) std::malloc(count * sizeof(value_type));
allocator_allocate(count, sizeof_value) ==
    malloc(SizeTMul(count, ToSizeT(<<sizeof_value>>)))

(***************************************************************************)
(* The hasher.                                                             *)
(***************************************************************************)
\* 0x811c9dc5u and 0x01000193u, as the bytes of a std::uint32_t.
FNV_BASIS32 == <<197, 157, 28, 129>>
FNV_PRIME32 == <<147, 1, 0, 1>>

RECURSIVE fnv1loop(_, _, _, _)
\* The FNV-1a round: the byte is XORed in before the multiplication.
fnv1loop_a(buf, size, i, hash) ==
    IF i < size
    THEN LET next == SizeTMul(SizeTXorByte(hash, buf[i + 1]), ToSizeT(FNV_PRIME32))
         IN  IF Len(next) = SizeTBytes THEN fnv1loop(buf, size, i + 1, next) ELSE next
    ELSE hash

\* for (i = 0; i < _size; ++i) { hash *= __FNV_PRIME32; hash ^= buf[i]; }
fnv1loop(buf, size, i, hash) ==
    IF i < size
    THEN LET next == SizeTXorByte(SizeTMul(hash, ToSizeT(FNV_PRIME32)), buf[i + 1])
         IN  \* (the test of Len makes TLC compute this round before the next)
             IF Len(next) = SizeTBytes THEN fnv1loop(buf, size, i + 1, next) ELSE next
    ELSE hash

fnv1hash(data, size) == fnv1loop(data, size, 0, ToSizeT(FNV_BASIS32))

\* The digest of a buffer that was not hashed yet.
NotHashed == <<>>

\* Bytes the buffers of the model are made of.
Bytes == {0, 1, 97, 255}

(***************************************************************************)
(* The keys and values of the model.  A key is named; ObjectBytes gives    *)
(* its object representation, which is all the containers look at.         *)
(*   colA, colB  two different keys with the same hash                     *)
(*   zero        a key whose hash is 0, the empty marker                   *)
(*   even6, odd3 keys whose hashes are 6 and 3 modulo 16; the hash of      *)
(*               colA and colB is 2 modulo 16                              *)
(***************************************************************************)
\* sizeof(key_type)
KeySize == 16

ObjectBytes ==
    [ colA  |-> <<139, 233, 234, 227, 24, 68, 202, 131, 0, 0, 0, 0, 0, 0, 0, 15>>,
      colB  |-> <<25, 38, 58, 152, 239, 219, 151, 240, 0, 0, 0, 0, 0, 0, 0, 15>>,
      zero  |-> <<23, 0, 224, 65, 69, 168, 253, 140, 236, 175, 95, 79, 254, 10, 170, 94>>,
      even6 |-> <<1, 0, 0, 0, 0, 0, 0, 0, 0, 0, 0, 0, 0, 0, 0, 12>>,
      odd3  |-> <<2, 0, 0, 0, 0, 0, 0, 0, 0, 0, 0, 0, 0, 0, 0, 12>> ]

Keys == DOMAIN ObjectBytes

Values == {10, 20}

\* The content of a slot that holds no object: fresh from realloc, or destroyed.
NoKey == "indeterminate"
NoValue == -1

\* __fnv1hash(&_key, sizeof(_key)) of each key of the model.
HashOf == [k \in Keys |-> fnv1hash(ObjectBytes[k], KeySize)]

\* hash % capacity, tabulated for the hashes of the keys and the capacities
\* of the model.
Modulo ==
    [h \in {HashOf[k] : k \in Keys} |->
        [c \in 1..MaxCapacity |-> SizeTMod(h, c)]]

(***************************************************************************)
(* cppds::map.  A map is its four members; the arrays are sequences, slot  *)
(* i of the code being element i + 1.  The operations run on a frame: the  *)
(* map (t) and what the call has done so far: the growth events, the       *)
(* depth of reserve calls in progress, whether reserve was entered while   *)
(* another reserve was reinserting, whether the call was cut short because *)
(* it needs more than MaxCapacity slots, and whether it loops for ever: a  *)
(* growth that leaves the map as it was is followed by the same probe and  *)
(* the same growth again.                                                  *)
(***************************************************************************)
map_new ==
    [M_hdata |-> <<>>, M_kdata |-> <<>>, M_vdata |-> <<>>, M_capacity |-> 0]

Frame(t) ==
    [t |-> t, events |-> <<>>, depth |-> 0, reentered |-> FALSE, overflow |-> FALSE,
     looping |-> FALSE]

map_capacity(t) == t.M_capacity

RECURSIVE map_count(_, _)
map_count(t, i) ==
    IF i < map_capacity(t)
    THEN (IF t.M_hdata[i + 1] # SizeTZero THEN 1 ELSE 0) + map_count(t, i + 1)
    ELSE 0

map_size(t) == map_count(t, 0)

map_empty(t) == map_size(t) = 0

\* size_t idx = this->capacity() ? hash % this->capacity() : 0;
map_start(t, hash) ==
    IF map_capacity(t) # 0 THEN Modulo[hash][map_capacity(t)] ELSE 0

RECURSIVE map_probe(_, _, _)
\* while (idx < capacity() && _M_hdata[idx] && _M_hdata[idx] != hash) ++idx;
map_probe(t, hash, idx) ==
    IF /\ idx < map_capacity(t)
       /\ t.M_hdata[idx + 1] # SizeTZero
       /\ t.M_hdata[idx + 1] # hash
    THEN map_probe(t, hash, idx + 1)
    ELSE idx

\* A contains that also compares the stored key with the key asked for.
map_contains_key(t, key) ==
    LET hash == HashOf[key]
        idx  == map_probe(t, hash, map_start(t, hash))
    IN  /\ idx < map_capacity(t)
        /\ t.M_hdata[idx + 1] = hash
        /\ t.M_kdata[idx + 1] = key

map_contains(t, key) ==
    LET hash == HashOf[key]
        idx  == map_probe(t, hash, map_start(t, hash))
    IN  idx < map_capacity(t) /\ t.M_hdata[idx + 1] = hash

\* The slot the probe for _key ends at (capacity() when it runs off the end).
map_slot(t, key) == map_probe(t, HashOf[key], map_start(t, HashOf[key]))

\* An erase that empties the home slot of the key without probing for it.
map_erase_home(t, key) ==
    LET idx == map_start(t, HashOf[key])
    IN  IF idx < map_capacity(t)
        THEN [t EXCEPT !.M_hdata[idx + 1] = SizeTZero,
                       !.M_kdata[idx + 1] = NoKey,
                       !.M_vdata[idx + 1] = NoValue]
        ELSE t

\* The slots whose key and value erase destroys (~key_type(), ~value_type()),
\* as indices of the model (from 1).
map_erase_destroyed(t, key) ==
    LET hash == HashOf[key]
        idx  == map_probe(t, hash, map_start(t, hash))
    IN  IF idx < map_capacity(t) THEN {idx + 1} ELSE {}

\* An erase that releases the buffers when it empties the map.
map_erase_shrink(t, key) ==
    LET hash == HashOf[key]
        idx  == map_probe(t, hash, map_start(t, hash))
        u    == IF idx < map_capacity(t)
                THEN [t EXCEPT !.M_hdata[idx + 1] = SizeTZero,
                               !.M_kdata[idx + 1] = NoKey,
                               !.M_vdata[idx + 1] = NoValue]
                ELSE t
    IN  IF map_empty(u) THEN map_new ELSE u

map_erase(t, key) ==
    LET hash == HashOf[key]
        idx  == map_probe(t, hash, map_start(t, hash))
    IN  IF idx < map_capacity(t)
        THEN [t EXCEPT !.M_hdata[idx + 1] = SizeTZero,
                       !.M_kdata[idx + 1] = NoKey,
                       !.M_vdata[idx + 1] = NoValue]
        ELSE t

\* A clear that empties the slots and keeps the buffers.
map_clear_keep(t) ==
    [t EXCEPT !.M_hdata = [i \in 1..t.M_capacity |-> SizeTZero],
              !.M_kdata = [i \in 1..t.M_capacity |-> NoKey],
              !.M_vdata = [i \in 1..t.M_capacity |-> NoValue]]

map_clear(t) == map_new

\* A reserve that allocates fresh buffers: no old slot keeps its content.
map_malloc(t, capacity) ==
    [M_capacity |-> capacity,
     M_vdata |-> [i \in 1..capacity |-> NoValue],
     M_kdata |-> [i \in 1..capacity |-> NoKey],
     M_hdata |-> [i \in 1..capacity |-> SizeTZero]]

\* The reallocation part of reserve: the three buffers get _capacity slots,
\* the old slots keep their content, the new hash markers are zeroed.
map_realloc(t, capacity) ==
    [M_capacity |-> capacity,
     M_vdata |-> [i \in 1..capacity |->
                    IF i <= t.M_capacity THEN t.M_vdata[i] ELSE NoValue],
     M_kdata |-> [i \in 1..capacity |->
                    IF i <= t.M_capacity THEN t.M_kdata[i] ELSE NoKey],
     M_hdata |-> [i \in 1..capacity |->
                    IF i <= t.M_capacity THEN t.M_hdata[i] ELSE SizeTZero]]

\* The bytes reserve asks realloc for, for each buffer:
\*   _M_vdata: _capacity * sizeof(value_type)
\*   _M_kdata: _capacity * sizeof(value_type)
\*   _M_hdata: _capacity * sizeof(size_type)
map_bytes(t, sizeof_value) ==
    [M_vdata |-> map_capacity(t) * sizeof_value,
     M_kdata |-> map_capacity(t) * sizeof_value,
     M_hdata |-> map_capacity(t) * SizeTBytes]

\* The occupied slots whose key lies, in part or whole, past the end of the
\* key buffer.
map_keys_outside(t, sizeof_value) ==
    {i \in 1..map_capacity(t) :
        /\ t.M_hdata[i] # SizeTZero
        /\ i * KeySize > map_bytes(t, sizeof_value).M_kdata}

\* A growth request that starts an empty map with two slots.
map_growth_two(t) == IF map_empty(t) THEN 2 ELSE map_capacity(t) * 2

\* A growth request for one more slot.
map_growth_next(t) == IF map_empty(t) THEN 1 ELSE map_capacity(t) + 1

\* A growth request that asks for the capacity the map has.
map_growth_same(t) == IF map_empty(t) THEN 1 ELSE map_capacity(t)

\* if (this->empty()) reserve(1); else reserve(this->capacity() * 2);
map_growth(t) == IF map_empty(t) THEN 1 ELSE map_capacity(t) * 2

\* A store that leaves the value of a key that is already there.
map_store_absent(t, idx, key, value, hash) ==
    IF t.M_hdata[idx + 1] = hash /\ hash # SizeTZero THEN t
    ELSE [t EXCEPT !.M_kdata[idx + 1] = key,
                   !.M_vdata[idx + 1] = value,
                   !.M_hdata[idx + 1] = hash]

\* A store that writes the value and the hash and leaves the key slot.
map_store_nokey(t, idx, key, value, hash) ==
    [t EXCEPT !.M_vdata[idx + 1] = value, !.M_hdata[idx + 1] = hash]

\* _M_kdata[idx] = _key; _M_vdata[idx] = _value; _M_hdata[idx] = hash;
map_store(t, idx, key, value, hash) ==
    [t EXCEPT !.M_kdata[idx + 1] = key,
              !.M_vdata[idx + 1] = value,
              !.M_hdata[idx + 1] = hash]

RECURSIVE map_insert(_, _, _), map_reserve(_, _), map_reinsert(_, _, _)

map_insert(f, key, value) ==
    LET hash == HashOf[key]
        idx  == map_probe(f.t, hash, map_start(f.t, hash))
    IN  IF f.overflow \/ f.looping THEN f
        ELSE IF idx >= map_capacity(f.t)
        THEN IF map_growth(f.t) > MaxCapacity
             THEN [f EXCEPT !.overflow = TRUE]
             ELSE LET g == map_reserve(f, map_growth(f.t))
                  IN  IF g.t = f.t THEN [g EXCEPT !.looping = TRUE]
                      ELSE map_insert(g, key, value)
        ELSE [f EXCEPT !.t = map_store(f.t, idx, key, value, hash)]

\* A growth that leaves every entry in the slot it had.
map_reinsert_none(f, old_capacity, i) == f

\* A reinsertion loop that leaves the hash marker of the slot it reinserts.
map_reinsert_marked(f, old_capacity, i) ==
    IF i >= old_capacity \/ f.overflow \/ f.looping THEN f
    ELSE IF f.t.M_hdata[i + 1] # SizeTZero
    THEN map_reinsert(
             map_insert(f, f.t.M_kdata[i + 1], f.t.M_vdata[i + 1]),
             old_capacity, i + 1)
    ELSE map_reinsert(f, old_capacity, i + 1)

\* for (i = 0; i < old_capacity; ++i)
\*     if (_M_hdata[i]) { _M_hdata[i] = 0; insert(_M_kdata[i], _M_vdata[i]); }
map_reinsert(f, old_capacity, i) ==
    IF i >= old_capacity \/ f.overflow \/ f.looping THEN f
    ELSE IF f.t.M_hdata[i + 1] # SizeTZero
    THEN map_reinsert(
             map_insert([f EXCEPT !.t.M_hdata[i + 1] = SizeTZero],
                        f.t.M_kdata[i + 1], f.t.M_vdata[i + 1]),
             old_capacity, i + 1)
    ELSE map_reinsert(f, old_capacity, i + 1)

map_reserve(f, capacity) ==
    IF capacity < map_capacity(f.t) THEN f
    ELSE LET g == [f EXCEPT !.t = map_realloc(f.t, capacity),
                            !.depth = @ + 1,
                            !.reentered = @ \/ f.depth > 0]
             r == map_reinsert(g, map_capacity(f.t), 0)
         IN  [r EXCEPT !.depth = @ - 1,
                       !.events = Append(@, [depth |-> f.depth,
                                             before |-> f.t,
                                             after |-> r.t])]

(***************************************************************************)
(* cppds::set: the same table without the key buffer; _M_vdata holds the   *)
(* elements.                                                               *)
(***************************************************************************)
set_new == [M_hdata |-> <<>>, M_vdata |-> <<>>, M_capacity |-> 0]

set_capacity(t) == t.M_capacity

RECURSIVE set_count(_, _)
set_count(t, i) ==
    IF i < set_capacity(t)
    THEN (IF t.M_hdata[i + 1] # SizeTZero THEN 1 ELSE 0) + set_count(t, i + 1)
    ELSE 0

set_size(t) == set_count(t, 0)

set_empty(t) == set_size(t) = 0

set_start(t, hash) ==
    IF set_capacity(t) # 0 THEN Modulo[hash][set_capacity(t)] ELSE 0

RECURSIVE set_probe(_, _, _)
set_probe(t, hash, idx) ==
    IF /\ idx < set_capacity(t)
       /\ t.M_hdata[idx + 1] # SizeTZero
       /\ t.M_hdata[idx + 1] # hash
    THEN set_probe(t, hash, idx + 1)
    ELSE idx

\* A contains that never takes the empty marker for a match.
set_contains_marked(t, key) ==
    LET hash == HashOf[key]
        idx  == set_probe(t, hash, set_start(t, hash))
    IN  /\ idx < set_capacity(t)
        /\ t.M_hdata[idx + 1] = hash
        /\ hash # SizeTZero

set_contains(t, key) ==
    LET hash == HashOf[key]
        idx  == set_probe(t, hash, set_start(t, hash))
    IN  idx < set_capacity(t) /\ t.M_hdata[idx + 1] = hash

\* The slots whose element erase destroys (~value_type()).
set_erase_destroyed(t, key) ==
    LET hash == HashOf[key]
        idx  == set_probe(t, hash, set_start(t, hash))
    IN  IF idx < set_capacity(t) THEN {idx + 1} ELSE {}

\* An erase that empties the home slot of the key without probing for it.
set_erase_home(t, key) ==
    LET idx == set_start(t, HashOf[key])
    IN  IF idx < set_capacity(t)
        THEN [t EXCEPT !.M_hdata[idx + 1] = SizeTZero,
                       !.M_vdata[idx + 1] = NoKey]
        ELSE t

set_erase(t, key) ==
    LET hash == HashOf[key]
        idx  == set_probe(t, hash, set_start(t, hash))
    IN  IF idx < set_capacity(t)
        THEN [t EXCEPT !.M_hdata[idx + 1] = SizeTZero,
                       !.M_vdata[idx + 1] = NoKey]
        ELSE t

set_clear(t) == set_new

set_realloc(t, capacity) ==
    [M_capacity |-> capacity,
     M_vdata |-> [i \in 1..capacity |->
                    IF i <= t.M_capacity THEN t.M_vdata[i] ELSE NoKey],
     M_hdata |-> [i \in 1..capacity |->
                    IF i <= t.M_capacity THEN t.M_hdata[i] ELSE SizeTZero]]

\* A growth request for half as many slots again.
set_growth_half(t) ==
    IF set_empty(t) THEN 1 ELSE set_capacity(t) + (set_capacity(t) + 1) \div 2

set_growth(t) == IF set_empty(t) THEN 1 ELSE set_capacity(t) * 2

\* _M_vdata[idx] = _value; _M_hdata[idx] = hash;
set_store(t, idx, value, hash) ==
    [t EXCEPT !.M_vdata[idx + 1] = value, !.M_hdata[idx + 1] = hash]

RECURSIVE set_insert(_, _), set_reserve(_, _), set_reinsert(_, _, _)

set_insert(f, value) ==
    LET hash == HashOf[value]
        idx  == set_probe(f.t, hash, set_start(f.t, hash))
    IN  IF f.overflow \/ f.looping THEN f
        ELSE IF idx >= set_capacity(f.t)
        THEN IF set_growth(f.t) > MaxCapacity
             THEN [f EXCEPT !.overflow = TRUE]
             ELSE LET g == set_reserve(f, set_growth(f.t))
                  IN  IF g.t = f.t THEN [g EXCEPT !.looping = TRUE]
                      ELSE set_insert(g, value)
        ELSE [f EXCEPT !.t = set_store(f.t, idx, value, hash)]

set_reinsert(f, old_capacity, i) ==
    IF i >= old_capacity \/ f.overflow \/ f.looping THEN f
    ELSE IF f.t.M_hdata[i + 1] # SizeTZero
    THEN set_reinsert(
             set_insert([f EXCEPT !.t.M_hdata[i + 1] = SizeTZero],
                        f.t.M_vdata[i + 1]),
             old_capacity, i + 1)
    ELSE set_reinsert(f, old_capacity, i + 1)

set_reserve(f, capacity) ==
    IF capacity < set_capacity(f.t) THEN f
    ELSE LET g == [f EXCEPT !.t = set_realloc(f.t, capacity),
                            !.depth = @ + 1,
                            !.reentered = @ \/ f.depth > 0]
             r == set_reinsert(g, set_capacity(f.t), 0)
         IN  [r EXCEPT !.depth = @ - 1,
                       !.events = Append(@, [depth |-> f.depth,
                                             before |-> f.t,
                                             after |-> r.t])]

(***************************************************************************)
(* cppds::stack over the vector that takes an allocator.  A vector is its  *)
(* members m_data and m_length; the buffer is a sequence, element i of the *)
(* code being element i + 1.  The elements are ints.                       *)
(***************************************************************************)
Elements == {10, 20, 30}

\* std::realloc(ptr, count * sizeof(value_type)): the elements that fit are
\* kept, the others are indeterminate.
allocator_reallocate(ptr, count) ==
    [i \in 1..count |-> IF i <= Len(ptr) THEN ptr[i] ELSE NoValue]

avector_new == [m_data |-> <<>>, m_length |-> 0]

avector_length(v) == v.m_length

avector_empty(v) == ~(v.m_length # 0)

\* A push_back that stores the value before it counts the new element.
avector_push_back_early(v, value) ==
    LET data == allocator_reallocate(v.m_data, v.m_length + 1)
    IN  [m_length |-> v.m_length + 1,
         m_data |-> IF v.m_length > 0 THEN [data EXCEPT ![v.m_length] = value]
                    ELSE data]

\* ++m_length; m_data = reallocate(m_data, m_length); m_data[m_length - 1] = value;
avector_push_back(v, value) ==
    LET length == v.m_length + 1
        data   == allocator_reallocate(v.m_data, length)
    IN  [m_length |-> length, m_data |-> [data EXCEPT ![length] = value]]

\* A pop_back without the test for an empty vector.
avector_pop_back_unchecked(v) ==
    LET length == v.m_length - 1
    IN  [m_length |-> length,
         m_data |-> allocator_reallocate(
                        [i \in 1..Len(v.m_data) |->
                            IF i = length + 1 THEN NoValue ELSE v.m_data[i]],
                        length)]

avector_pop_back(v) ==
    IF avector_empty(v) THEN v
    ELSE LET length == v.m_length - 1
         IN  [m_length |-> length,
              m_data |-> allocator_reallocate(
                             [v.m_data EXCEPT ![length + 1] = NoValue], length)]

RECURSIVE avector_clear(_)
\* while (not empty()) pop_back();
avector_clear(v) ==
    IF ~avector_empty(v) THEN avector_clear(avector_pop_back(v)) ELSE v

\* back(): the last element, m_data[m_length - 1].
avector_back(v) == v.m_data[(v.m_length - 1) + 1]

stack_push(s, value) == avector_push_back(s, value)

stack_pop(s) == avector_pop_back(s)

stack_top(s) == avector_back(s)

stack_clear(s) == avector_clear(s)

stack_length(s) == avector_length(s)

stack_empty(s) == avector_empty(s)

(***************************************************************************)
(* cppds::queue over the vector of vector.hpp.  A vector is its members    *)
(* _M_data and _M_size.  A size_type is 64 bits wide; the sizes and        *)
(* indices of the model are the values near 0 and, after a wrap-around,    *)
(* near 2^64, and each is written as the integer of least magnitude that   *)
(* is congruent to it modulo 2^64: size() - 1 of an empty vector, which is *)
(* 2^64 - 1, is written 0 - 1.  Subtraction is then that of the integers   *)
(* and the unsigned order puts the negative integers above the others.     *)
(***************************************************************************)
IndexMinus(a, b) == a - b

IndexLess(a, b) == IF (a < 0) = (b < 0) THEN a < b ELSE b < 0

vector_new == [M_data |-> <<>>, M_size |-> 0]

vector_size(v) == v.M_size

vector_empty(v) == vector_size(v) = 0

vector_resize(v, size) ==
    IF size = 0 THEN vector_new
    ELSE IF size < 0
    THEN \* realloc cannot give that many bytes and returns a null pointer
         [M_size |-> size, M_data |-> <<>>]
    ELSE [M_size |-> size,
          M_data |-> [i \in 1..size |->
                        IF i <= Len(v.M_data) THEN v.M_data[i] ELSE NoValue]]

RECURSIVE vector_shift_up(_, _)
\* for (i = _index; i < size() - 1; ++i) operator[](i + 1) = operator[](i);
vector_shift_up(v, i) ==
    IF i < vector_size(v) - 1
    THEN vector_shift_up([v EXCEPT !.M_data[i + 2] = v.M_data[i + 1]], i + 1)
    ELSE v

vector_insert(v, index, value) ==
    LET shifted == vector_shift_up(vector_resize(v, vector_size(v) + 1), index)
    IN  [shifted EXCEPT !.M_data[index + 1] = value]

RECURSIVE vector_shift_down(_, _)
\* for (i = _index; i < size() - 1; ++i) operator[](i) = operator[](i + 1);
vector_shift_down(v, i) ==
    IF IndexLess(i, IndexMinus(vector_size(v), 1))
    THEN vector_shift_down([v EXCEPT !.M_data[i + 1] = v.M_data[i + 2]], i + 1)
    ELSE v

\* An erase that fills the hole with the last element.
vector_erase_last(v, index) ==
    LET moved == [v EXCEPT !.M_data[index + 1] = v.M_data[vector_size(v)]]
    IN  vector_resize(moved, vector_size(v) - 1)

vector_erase(v, index) ==
    LET destroyed == [v EXCEPT !.M_data[index + 1] = NoValue]
    IN  vector_resize(vector_shift_down(destroyed, index), vector_size(v) - 1)

vector_push_back(v, value) == vector_insert(v, vector_size(v), value)

vector_pop_back(v) == vector_erase(v, vector_size(v) - 1)

\* A pop_front that erases the last element.
vector_pop_front_last(v) == vector_erase(v, vector_size(v) - 1)

vector_pop_front(v) == vector_erase(v, 0)

vector_back(v) == v.M_data[(vector_size(v) - 1) + 1]

vector_front(v) == v.M_data[0 + 1]

vector_push_front(v, value) == vector_insert(v, 0, value)

vector_clear(v) == vector_resize(v, 0)

RECURSIVE vector_copy(_, _, _, _)
\* for (i = 0; i < _vector.size(); ++i) push_back(_vector[i]);
\* _vector is a reference: with same it is the vector being assigned to.
vector_copy(v, _vector, same, i) ==
    LET source == IF same THEN v ELSE _vector
    IN  IF i < vector_size(source)
        THEN vector_copy(vector_push_back(v, source.M_data[i + 1]),
                         _vector, same, i + 1)
        ELSE v

\* operator=(const vector &_vector): clear(), then the copy loop.
vector_assign(v, _vector, same) ==
    vector_copy(vector_clear(v), _vector, same, 0)

\* The outcome of an element access: the element, or the exception thrown;
\* and the outcome of a call that fails on an access outside the buffer.
Returned(value) == [signal |-> "none", value |-> value]
OutOfRange == [signal |-> "out_of_range", value |-> NoValue]
Fault == [signal |-> "fault", value |-> NoValue]

\* erase(_index) with what it returns to.  With _index < size() it is the
\* erase above.  Otherwise operator[](_index), and with size() = 0 the shift
\* loop up to size() - 1 = 2^64 - 1, access elements outside the buffer,
\* which is undefined: the process fails there, or the accesses do no harm
\* and erase ends with resize(size() - 1).
vector_erase_outcomes(v, index) ==
    IF IndexLess(index, vector_size(v))
    THEN {[v |-> vector_erase(v, index), result |-> Returned(NoValue)]}
    ELSE {[v |-> v, result |-> Fault],
          [v |-> vector_resize(v, IndexMinus(vector_size(v), 1)),
           result |-> Returned(NoValue)]}

\* An at() that lets the index size() through; what is read there is
\* indeterminate.
vector_at_past(v, index) ==
    IF index > vector_size(v) THEN OutOfRange
    ELSE IF index = vector_size(v) THEN Returned(NoValue)
    ELSE Returned(v.M_data[index + 1])

\* if (_index >= size()) throw std::out_of_range(...); return operator[](_index);
vector_at(v, index) ==
    IF index >= vector_size(v) THEN OutOfRange
    ELSE Returned(v.M_data[index + 1])

queue_push(q, value) == vector_push_back(q, value)

queue_pop(q) == vector_pop_front(q)

(***************************************************************************)
(* cppds::array<int, 3>.  The repository defines the class three times:    *)
(* twice in array.hpp (the first operator[] checks the position, the       *)
(* second is noexcept and does not) and once more with at() beside an      *)
(* unchecked operator[].  An array is its member m_data (_M_data).  An     *)
(* access is the set of its possible outcomes: reading past the end of     *)
(* the member is undefined, and yields any int or a fault.                 *)
(***************************************************************************)
\* The template argument N of the arrays of the model.
ArrayN == 3

\* value_type m_data[N] {}: the ints are zero until assigned.
ArrayZero == 0

array_length(a) == ArrayN

\* array(il): the first N values of the list, the other elements stay zero.
array_new(il) ==
    [i \in 1..ArrayN |-> IF i <= Len(il) THEN il[i] ELSE ArrayZero]

PastTheEnd ==
    {Returned(x) : x \in Elements \cup {ArrayZero}}
        \cup {[signal |-> "fault", value |-> NoValue]}

\* array.hpp, first definition: operator[] throws when pos >= length().
array_subscript(a, pos) ==
    IF pos >= array_length(a) THEN {OutOfRange} ELSE {Returned(a[pos + 1])}

\* array.hpp, second definition: operator[] is noexcept, m_data[pos].
array_subscript_noexcept(a, pos) ==
    IF pos < ArrayN THEN {Returned(a[pos + 1])} ELSE PastTheEnd

\* The third definition: at() throws when _index >= size().
array_at(a, index) ==
    IF index >= ArrayN THEN {OutOfRange} ELSE {Returned(a[index + 1])}

\* The third definition: operator[] is data()[_index].
array_subscript_data(a, index) ==
    IF index < ArrayN THEN {Returned(a[index + 1])} ELSE PastTheEnd

ArrayAccess(how, a, pos) ==
    CASE how = "operator[]" -> array_subscript(a, pos)
      [] how = "operator[] noexcept" -> array_subscript_noexcept(a, pos)
      [] how = "at" -> array_at(a, pos)
      [] how = "operator[] data" -> array_subscript_data(a, pos)

ArrayAccessors == {"operator[]", "operator[] noexcept", "at", "operator[] data"}

(***************************************************************************)
(* The container under test and its caller.  The container is a map or a   *)
(* set (kind); the caller draws its keys and values from caller.keys and   *)
(* caller.values.  Beside the container, the state records what the        *)
(* caller saw: the last call, with what size(), capacity() and contains()  *)
(* returned just before it and around each of its growth events, and the   *)
(* value of the call before it when that was an insert of the same key     *)
(* (prior); whether the container was last constructed or cleared, and     *)
(* whether a key was erased since; the keys inserted since then (as long   *)
(* as nothing was erased); and a second container that replays the calls   *)
(* made since the last clear() on a freshly constructed one.  twin is a    *)
(* set that a second caller keeps beside a map, making every call on both. *)
(* recent is, for each key, the value of the latest insert of it that a    *)
(* third caller made, who keeps that record and nothing else.  alloc is    *)
(* sizeof(value_type) of the map and whether a write past the end of a     *)
(* buffer has made the process fail.                                       *)
(***************************************************************************)
New == IF kind = "map" THEN map_new ELSE set_new

Size(t) == IF kind = "map" THEN map_size(t) ELSE set_size(t)

Empty(t) == IF kind = "map" THEN map_empty(t) ELSE set_empty(t)

Capacity(t) == IF kind = "map" THEN map_capacity(t) ELSE set_capacity(t)

Contains(t, key) ==
    IF kind = "map" THEN map_contains(t, key) ELSE set_contains(t, key)

InsertInto(t, key, value) ==
    IF kind = "map" THEN map_insert(Frame(t), key, value)
    ELSE set_insert(Frame(t), key)

EraseFrom(t, key) ==
    IF kind = "map" THEN map_erase(t, key) ELSE set_erase(t, key)

ClearOf(t) == IF kind = "map" THEN map_clear(t) ELSE set_clear(t)

Destroyed(t, key) ==
    IF kind = "map" THEN map_erase_destroyed(t, key)
    ELSE set_erase_destroyed(t, key)

Contained(t) == {k \in Keys : Contains(t, k)}

\* The slots whose hash marker is not the empty marker, and the key kept in
\* a slot (_M_kdata[i] of a map, _M_vdata[i] of a set).
Occupied(t) == {i \in 1..Capacity(t) : t.M_hdata[i] # SizeTZero}

StoredKey(t, i) == IF kind = "map" THEN t.M_kdata[i] ELSE t.M_vdata[i]

\* The slot the probe for a key ends at, as an index of the model (from 1).
Slot(t, key) ==
    1 + (IF kind = "map" THEN map_slot(t, key)
         ELSE set_probe(t, HashOf[key], set_start(t, HashOf[key])))

\* hash % capacity() of the hash stored in an occupied slot.
Home(t, i) == Modulo[t.M_hdata[i]][Capacity(t)]

Observe(t) ==
    [size |-> Size(t), capacity |-> Capacity(t), contained |-> Contained(t)]

ObserveEvents(events) ==
    [i \in 1..Len(events) |->
        [depth |-> events[i].depth,
         before |-> Observe(events[i].before),
         after |-> Observe(events[i].after)]]

Call(op, key, value, events, reentered) ==
    [op |-> op, key |-> key, value |-> value, pre |-> Observe(table),
     events |-> ObserveEvents(events), reentered |-> reentered,
     prior |-> IF last.op = "insert" /\ last.key = key THEN last.value ELSE NoValue]

Constructed ==
    /\ table = New
    /\ shadow = New
    /\ last = [op |-> "new", key |-> NoKey, value |-> NoValue,
               pre |-> Observe(New), events |-> <<>>, reentered |-> FALSE,
               prior |-> NoValue]
    /\ inserted = {}
    /\ since = [op |-> "new", erased |-> FALSE]
    /\ twin = set_new
    /\ recent = [k \in Keys |-> NoValue]

\* The value type of the map has the size of its key type, and no write has
\* gone past the end of a buffer.
Allocation == alloc = [sizeof_value |-> KeySize, fault |-> FALSE]

\* A stack and a queue after their default constructors, with no call made.
Adapters ==
    /\ stack = avector_new
    /\ stack_log = <<>>
    /\ queue = vector_new
    /\ queue_log = <<>>

\* A default-constructed vector and array, with no call made.
NoCall == [op |-> "new", index |-> 0, value |-> NoValue, result |-> Returned(NoValue)]

\* No call of the allocator on its own yet.
NoBlock == [op |-> "new"]

Heap == block = NoBlock

VectorNew ==
    /\ vec = vector_new
    /\ other = vector_new
    /\ vec_last = [op |-> "new", index |-> 0, value |-> NoValue,
                   result |-> Returned(NoValue), pre |-> vector_new]

Sequences ==
    /\ VectorNew
    /\ arr = array_new(<<>>)
    /\ arr_last = NoCall
    /\ input = <<>>
    /\ digest = NotHashed

\* A map or a set, with one value: the values play no part in the probing.
Init ==
    /\ kind \in {"map", "set"}
    /\ caller = [keys |-> Keys, values |-> {10}]
    /\ Constructed
    /\ Allocation
    /\ Adapters
    /\ Heap
    /\ Sequences

\* A map whose caller uses both values, on fewer keys, and never clears it.
InitValues ==
    /\ kind = "map"
    /\ caller = [keys |-> {"colA", "colB", "zero", "even6"}, values |-> Values]
    /\ Constructed
    /\ Allocation
    /\ Adapters
    /\ Heap
    /\ Sequences

Insert(key, value) ==
    LET f == InsertInto(table, key, value)
    IN  /\ ~f.overflow /\ ~f.looping
        /\ table' = f.t
        /\ shadow' = InsertInto(shadow, key, value).t
        /\ last' = Call("insert", key, IF kind = "map" THEN value ELSE NoValue,
                        f.events, f.reentered)
        /\ inserted' = IF since.erased THEN {} ELSE inserted \cup {key}
        /\ UNCHANGED <<kind, caller, since, twin, recent, alloc, adapters, sequences, hasher, rest>>

Erase(key) ==
    /\ table' = EraseFrom(table, key)
    /\ shadow' = EraseFrom(shadow, key)
    /\ last' = Call("erase", key, NoValue, <<>>, FALSE)
    /\ inserted' = {}
    /\ since' = [since EXCEPT !.erased = TRUE]
    /\ UNCHANGED <<kind, caller, twin, recent, alloc, adapters, sequences, hasher, rest>>

Clear ==
    /\ table' = ClearOf(table)
    /\ shadow' = New
    /\ last' = Call("clear", NoKey, NoValue, <<>>, FALSE)
    /\ inserted' = {}
    /\ since' = [op |-> "clear", erased |-> FALSE]
    /\ UNCHANGED <<kind, caller, twin, recent, alloc, adapters, sequences, hasher, rest>>

Next ==
    \/ \E key \in caller.keys, value \in caller.values : Insert(key, value)
    \/ \E key \in caller.keys : Erase(key)
    \/ Clear

Spec == Init /\ [][Next]_vars

NextValues ==
    \/ \E key \in caller.keys, value \in caller.values : Insert(key, value)
    \/ \E key \in caller.keys : Erase(key)

SpecValues == InitValues /\ [][NextValues]_vars

(***************************************************************************)
(* A map and a set side by side: every call is made on both, the set       *)
(* getting the key of the map's call as its element.                       *)
(***************************************************************************)
TwinInsert(key, value) ==
    LET f == map_insert(Frame(table), key, value)
        g == set_insert(Frame(twin), key)
    IN  /\ ~f.overflow /\ ~g.overflow /\ ~f.looping /\ ~g.looping
        /\ table' = f.t
        /\ twin' = g.t
        /\ UNCHANGED <<kind, caller, shadow, last, inserted, since, recent,
                       alloc, adapters, sequences, hasher, rest>>

TwinErase(key) ==
    /\ table' = map_erase(table, key)
    /\ twin' = set_erase(twin, key)
    /\ UNCHANGED <<kind, caller, shadow, last, inserted, since, recent,
                   alloc, adapters, sequences, hasher, rest>>

TwinClear ==
    /\ table' = map_clear(table)
    /\ twin' = set_clear(twin)
    /\ UNCHANGED <<kind, caller, shadow, last, inserted, since, recent,
                   alloc, adapters, sequences, hasher, rest>>

NextTwin ==
    \/ \E key \in caller.keys, value \in caller.values : TwinInsert(key, value)
    \/ \E key \in caller.keys : TwinErase(key)
    \/ TwinClear

InitTwin == Init /\ kind = "map"

SpecTwin == InitTwin /\ [][NextTwin]_vars

(***************************************************************************)
(* A map whose caller records the value of its latest insert of each key,  *)
(* uses both values on three keys with three different non-zero hashes,    *)
(* and never clears the map.                                               *)
(***************************************************************************)
InitRecent ==
    /\ kind = "map"
    /\ caller = [keys |-> {"colA", "even6", "odd3"}, values |-> Values]
    /\ Constructed
    /\ Allocation
    /\ Adapters
    /\ Heap
    /\ Sequences

RecentInsert(key, value) ==
    LET f == map_insert(Frame(table), key, value)
    IN  /\ ~f.overflow /\ ~f.looping
        /\ table' = f.t
        /\ recent' = [recent EXCEPT ![key] = value]
        /\ UNCHANGED <<kind, caller, shadow, last, inserted, since, twin,
                       alloc, adapters, sequences, hasher, rest>>

RecentErase(key) ==
    /\ table' = map_erase(table, key)
    /\ UNCHANGED <<kind, caller, shadow, last, inserted, since, twin, recent,
                   alloc, adapters, sequences, hasher, rest>>

NextRecent ==
    \/ \E key \in caller.keys, value \in caller.values : RecentInsert(key, value)
    \/ \E key \in caller.keys : RecentErase(key)

SpecRecent == InitRecent /\ [][NextRecent]_vars

(***************************************************************************)
(* Maps whose value type has another size than the key type.  A key that   *)
(* insert writes past the end of the key buffer is undefined behaviour:    *)
(* the write may land in memory the allocator left unused, and the call    *)
(* returns as if the buffer were large enough, or the process fails, and   *)
(* no further call is made.                                                *)
(***************************************************************************)
ValueSizes == {8, 16, 32}

InitSizes ==
    /\ kind = "map"
    /\ caller = [keys |-> Keys, values |-> {10}]
    /\ Constructed
    /\ alloc \in [sizeof_value : ValueSizes, fault : {FALSE}]
    /\ Adapters
    /\ Heap
    /\ Sequences

SizesInsert(key, value) ==
    LET f == map_insert(Frame(table), key, value)
    IN  /\ ~alloc.fault
        /\ ~f.overflow /\ ~f.looping
        /\ table' = f.t
        /\ alloc' \in {[alloc EXCEPT !.fault = b] :
                          b \in IF map_keys_outside(f.t, alloc.sizeof_value) # {}
                                THEN BOOLEAN ELSE {FALSE}}
        /\ UNCHANGED <<kind, caller, shadow, last, inserted, since, twin, recent,
                       adapters, sequences, hasher, rest>>

SizesErase(key) ==
    /\ ~alloc.fault
    /\ table' = map_erase(table, key)
    /\ UNCHANGED <<kind, caller, shadow, last, inserted, since, twin, recent,
                   alloc, adapters, sequences, hasher, rest>>

SizesClear ==
    /\ ~alloc.fault
    /\ table' = map_clear(table)
    /\ UNCHANGED <<kind, caller, shadow, last, inserted, since, twin, recent,
                   alloc, adapters, sequences, hasher, rest>>

NextSizes ==
    \/ \E key \in caller.keys, value \in caller.values : SizesInsert(key, value)
    \/ \E key \in caller.keys : SizesErase(key)
    \/ SizesClear

SpecSizes == InitSizes /\ [][NextSizes]_vars

(***************************************************************************)
(* The stack and the queue with their callers.  The log of a container is  *)
(* the calls made on it: a push with its value; a pop of the stack with    *)
(* whether the stack was empty; a pop of the queue with what front()       *)
(* returned just before it.  The caller of the queue pops it only when it  *)
(* is not empty.                                                           *)
(***************************************************************************)
InitStack == Init /\ kind = "map"

StackPush(value) ==
    /\ Len(stack_log) < MaxCalls
    /\ stack' = stack_push(stack, value)
    /\ stack_log' = Append(stack_log, [op |-> "push", value |-> value,
                                       empty |-> stack_empty(stack)])
    /\ UNCHANGED <<tables, queue, queue_log, sequences, hasher, rest>>

StackPop ==
    /\ Len(stack_log) < MaxCalls
    /\ stack' = stack_pop(stack)
    /\ stack_log' = Append(stack_log, [op |-> "pop", value |-> NoValue,
                                       empty |-> stack_empty(stack)])
    /\ UNCHANGED <<tables, queue, queue_log, sequences, hasher, rest>>

NextStack ==
    \/ \E value \in Elements : StackPush(value)
    \/ StackPop

SpecStack == InitStack /\ [][NextStack]_vars

\* A caller that also clears the stack.
StackClear ==
    /\ Len(stack_log) < MaxCalls
    /\ stack' = stack_clear(stack)
    /\ stack_log' = Append(stack_log, [op |-> "clear", value |-> NoValue,
                                       empty |-> stack_empty(stack)])
    /\ UNCHANGED <<tables, queue, queue_log, sequences, hasher, rest>>

NextClear ==
    \/ \E value \in Elements : StackPush(value)
    \/ StackPop
    \/ StackClear

SpecClear == InitStack /\ [][NextClear]_vars

QueuePush(value) ==
    /\ Len(queue_log) < MaxCalls
    /\ queue' = queue_push(queue, value)
    /\ queue_log' = Append(queue_log, [op |-> "push", value |-> value])
    /\ UNCHANGED <<tables, stack, stack_log, sequences, hasher, rest>>

QueuePop ==
    /\ Len(queue_log) < MaxCalls
    /\ ~vector_empty(queue)
    /\ queue' = queue_pop(queue)
    /\ queue_log' = Append(queue_log, [op |-> "pop", value |-> vector_front(queue)])
    /\ UNCHANGED <<tables, stack, stack_log, sequences, hasher, rest>>

NextQueue ==
    \/ \E value \in Elements : QueuePush(value)
    \/ QueuePop

SpecQueue == InitStack /\ [][NextQueue]_vars

(***************************************************************************)
(* The vector of vector.hpp and its caller: insert at an index up to       *)
(* size(), push_front, erase of an element that is there, and at() with    *)
(* any index up to one past MaxSize.  vec_last is the last call, with the  *)
(* vector as it was before the call and what at() returned or threw.       *)
(***************************************************************************)
VecCall(op, index, value, result) ==
    [op |-> op, index |-> index, value |-> value, result |-> result, pre |-> vec]

\* The caller makes calls as long as no call has failed and size() is the
\* number of elements.
VecUsable ==
    /\ vec_last.result.signal # "fault"
    /\ vector_size(vec) = Len(vec.M_data)

VecInsert(index, value) ==
    /\ VecUsable
    /\ vector_size(vec) < MaxSize
    /\ index <= vector_size(vec)
    /\ vec' = vector_insert(vec, index, value)
    /\ vec_last' = VecCall("insert", index, value, Returned(NoValue))
    /\ UNCHANGED <<tables, adapters, arr, arr_last, hasher, rest>>

VecPushFront(value) ==
    /\ VecUsable
    /\ vector_size(vec) < MaxSize
    /\ vec' = vector_push_front(vec, value)
    /\ vec_last' = VecCall("push_front", 0, value, Returned(NoValue))
    /\ UNCHANGED <<tables, adapters, arr, arr_last, hasher, rest>>

VecErase(index) ==
    /\ VecUsable
    /\ \E o \in vector_erase_outcomes(vec, index) :
           /\ vec' = o.v
           /\ vec_last' = VecCall("erase", index, NoValue, o.result)
    /\ UNCHANGED <<tables, adapters, arr, arr_last, hasher, rest>>

\* pop_front() is erase(0) and pop_back() is erase(size() - 1), also on an
\* empty vector; queue::pop() is pop_front().
VecPopFront ==
    /\ VecUsable
    /\ \E o \in vector_erase_outcomes(vec, 0) :
           /\ vec' = o.v
           /\ vec_last' = VecCall("pop_front", 0, NoValue, o.result)
    /\ UNCHANGED <<tables, adapters, arr, arr_last, hasher, rest>>

VecPopBack ==
    /\ VecUsable
    /\ \E o \in vector_erase_outcomes(vec, IndexMinus(vector_size(vec), 1)) :
           /\ vec' = o.v
           /\ vec_last' = VecCall("pop_back", IndexMinus(vector_size(vec), 1),
                                  NoValue, o.result)
    /\ UNCHANGED <<tables, adapters, arr, arr_last, hasher, rest>>

VecAt(index) ==
    /\ VecUsable
    /\ vec' = vec
    /\ vec_last' = VecCall("at", index, NoValue, vector_at(vec, index))
    /\ UNCHANGED <<tables, adapters, arr, arr_last, hasher, rest>>

NextVector ==
    \/ \E index \in 0..MaxSize, value \in Elements : VecInsert(index, value)
    \/ \E value \in Elements : VecPushFront(value)
    \/ \E index \in 0..MaxSize : VecErase(index)
    \/ VecPopFront
    \/ VecPopBack
    \/ \E index \in 0..(MaxSize + 1) : VecAt(index)

SpecVector == InitStack /\ [][NextVector]_vars

(***************************************************************************)
(* Two vectors and their caller: elements are inserted at the end of the   *)
(* one and pushed onto the other, the second is assigned the first, and the first  *)
(* is assigned to itself.                                                  *)
(***************************************************************************)
\* The number of elements pushed onto the second vector.
MaxOther == 2

OtherPushBack(value) ==
    /\ vector_size(other) < MaxOther
    /\ other' = vector_push_back(other, value)
    /\ vec' = vec
    /\ vec_last' = VecCall("push_back_other", vector_size(other), value,
                           Returned(NoValue))
    /\ UNCHANGED <<tables, adapters, arr, arr_last, hasher, block>>

\* other = vec
VecAssign ==
    /\ VecUsable
    /\ other' = vector_assign(other, vec, FALSE)
    /\ vec' = vec
    /\ vec_last' = VecCall("assign", 0, NoValue, Returned(NoValue))
    /\ UNCHANGED <<tables, adapters, arr, arr_last, hasher, block>>

\* vec = vec
VecAssignSelf ==
    /\ VecUsable
    /\ vec' = vector_assign(vec, vec, TRUE)
    /\ vec_last' = VecCall("assign_self", 0, NoValue, Returned(NoValue))
    /\ UNCHANGED <<tables, adapters, arr, arr_last, hasher, rest>>

NextAssign ==
    \/ \E value \in Elements : VecInsert(vector_size(vec), value)
    \/ \E value \in Elements : OtherPushBack(value)
    \/ VecAssign
    \/ VecAssignSelf

SpecAssign == InitStack /\ [][NextAssign]_vars

(***************************************************************************)
(* The arrays and their caller: an array built from an initializer list,   *)
(* read at any position up to one past N + 1 through each of the           *)
(* accessors, and assigned through the checked operator[].                 *)
(***************************************************************************)
InitializerLists ==
    UNION {[1..n -> Elements] : n \in 0..(ArrayN + 1)}

InitArray ==
    /\ kind = "map"
    /\ caller = [keys |-> Keys, values |-> {10}]
    /\ Constructed
    /\ Allocation
    /\ Adapters
    /\ Heap
    /\ VectorNew
    /\ \E il \in InitializerLists : arr = array_new(il)
    /\ arr_last = NoCall
    /\ input = <<>>
    /\ digest = NotHashed

ArrayRead(how, pos) ==
    /\ \E result \in ArrayAccess(how, arr, pos) :
           arr_last' = [op |-> how, index |-> pos, value |-> NoValue,
                        result |-> result]
    /\ UNCHANGED <<tables, adapters, vec, vec_last, arr, hasher, rest>>

\* arr[pos] = value through the checked operator[].
ArrayAssign(pos, value) ==
    LET result == CHOOSE r \in array_subscript(arr, pos) : TRUE
    IN  /\ arr' = IF result.signal = "none" THEN [arr EXCEPT ![pos + 1] = value]
                  ELSE arr
        /\ arr_last' = [op |-> "assign", index |-> pos, value |-> value,
                        result |-> result]
        /\ UNCHANGED <<tables, adapters, vec, vec_last, hasher, rest>>

NextArray ==
    \/ \E how \in ArrayAccessors, pos \in 0..(ArrayN + 1) : ArrayRead(how, pos)
    \/ \E pos \in 0..(ArrayN + 1), value \in Elements : ArrayAssign(pos, value)

SpecArray == InitArray /\ [][NextArray]_vars

(***************************************************************************)
(* The hasher on its own: a buffer of up to MaxBytes bytes, hashed over    *)
(* its whole length.                                                       *)
(***************************************************************************)
InitHash ==
    /\ kind = "map"
    /\ caller = [keys |-> Keys, values |-> {10}]
    /\ Constructed
    /\ Allocation
    /\ Adapters
    /\ Heap
    /\ VectorNew
    /\ arr = array_new(<<>>)
    /\ arr_last = NoCall
    /\ input \in UNION {[1..n -> Bytes] : n \in 0..MaxBytes}
    /\ digest = NotHashed

Hash ==
    /\ digest = NotHashed
    /\ digest' = fnv1hash(input, Len(input))
    /\ UNCHANGED <<tables, adapters, sequences, input, rest>>

NextHash == Hash

SpecHash == InitHash /\ [][NextHash]_vars

(***************************************************************************)
(* The allocator on its own: one allocate(count) of an allocator<T>, and   *)
(* the deallocate of what it returned.                                     *)
(***************************************************************************)
\* sizeof(T) of the allocators: char, int, long.
TypeSizes == {1, 4, 8}

\* The counts asked for: 0, 1, 2 and 5 elements, the same with one of the two
\* highest bits set or with bit 61 set, and (size_type) -1.
Counts ==
    {ToSizeT(<<low, 0, 0, 0, 0, 0, 0, high>>) :
        low \in {0, 1, 2, 5}, high \in {0, 32, 64, 128}}
    \cup {[i \in 1..SizeTBytes |-> 255]}

Allocate(count, sizeof_value) ==
    /\ block = NoBlock
    /\ \E pointer \in allocator_allocate(count, sizeof_value) :
           block' = [op |-> "allocate", count |-> count,
                     sizeof_value |-> sizeof_value, pointer |-> pointer]
    /\ UNCHANGED <<tables, adapters, sequences, hasher, other>>

\* std::free(ptr), of a null pointer too.
Deallocate ==
    /\ block # NoBlock
    /\ block.op = "allocate"
    /\ block' = [block EXCEPT !.op = "deallocate"]
    /\ UNCHANGED <<tables, adapters, sequences, hasher, other>>

NextAllocator ==
    \/ \E count \in Counts, sizeof_value \in TypeSizes :
           Allocate(count, sizeof_value)
    \/ Deallocate

SpecAllocator == InitStack /\ [][NextAllocator]_vars

(***************************************************************************)
(* The claims about the map and the set.                                   *)
(***************************************************************************)
\* C1: starting from an empty map or set, after inserts of N distinct keys
\* (and no erase), size() is N and contains(k) is true for every inserted k.
C1_RoundTrip ==
    ~since.erased =>
        /\ Size(table) = Cardinality(inserted)
        /\ \A k \in inserted : Contains(table, k)

\* C2: erase(k) affects only k: a key with another hash that was contained
\* before erase(k) is still contained after it.
C2_EraseOnlyKey ==
    last.op = "erase" =>
        \A k \in last.pre.contained :
            HashOf[k] # HashOf[last.key] => Contains(table, k)

\* C3: after insert(k, v) followed by erase(k), contains(k) is false and
\* size() is one less than it was right after the insert.
C3_InsertErase ==
    [][(last.op = "insert" /\ last'.op = "erase" /\ last'.key = last.key) =>
           /\ ~Contains(table', last.key)
           /\ Size(table') = Size(table) - 1]_vars

\* C4: upsert: after insert(k, v1) followed by insert(k, v2), size() is what
\* it was after the first insert, contains(k) is true and the value in the
\* slot of k is v2.
C4_Upsert ==
    (kind = "map" /\ last.op = "insert" /\ last.prior # NoValue) =>
        /\ Size(table) = last.pre.size
        /\ Contains(table, last.key)
        /\ map_slot(table, last.key) < map_capacity(table)
        /\ table.M_vdata[map_slot(table, last.key) + 1] = last.value

\* A second insert of a contained key with the other value, in a table with
\* other entries.
C4_Witness ==
    /\ kind = "map" /\ last.op = "insert"
    /\ last.prior = 10 /\ last.value = 20
    /\ last.key \in last.pre.contained
    /\ last.pre.size >= 2
    /\ table.M_vdata[map_slot(table, last.key) + 1] = 20

\* C5: growth preserves membership: when an insert triggers growth events,
\* every key contained before the insert is contained after each growth
\* event and after the insert returns.
C5_GrowthKeeps ==
    (last.op = "insert" /\ Len(last.events) > 0) =>
        /\ \A i \in 1..Len(last.events) :
               last.pre.contained \subseteq last.events[i].after.contained
        /\ last.pre.contained \subseteq Contained(table)

\* An insert into a table of two entries that grew it twice, by doubling.
C5_Witness ==
    /\ last.op = "insert" /\ Len(last.events) = 2
    /\ last.pre.size = 2
    /\ {"colA", "even6"} \subseteq last.pre.contained
    /\ last.events[1].after.capacity = 2 * last.pre.capacity
    /\ last.events[2].after.capacity = 4 * last.pre.capacity
    /\ {"colA", "even6", "odd3"} \subseteq Contained(table)

\* C6: size() equals the number of distinct keys k for which contains(k) is
\* true.
C6_SizeCounts == Size(table) = Cardinality(Contained(table))

\* C7: after clear(), size() is 0, empty() is true and capacity is 0, and the
\* calls made since give the results (size, contains, capacity) they give on
\* a freshly constructed container.
C7_Clear ==
    /\ last.op = "clear" =>
           Size(table) = 0 /\ Empty(table) /\ Capacity(table) = 0
    /\ since.op = "clear" => Observe(table) = Observe(shadow)

\* A table that was cleared when it held entries, and grown and erased from
\* since.
C7_Witness ==
    /\ since.op = "clear" /\ since.erased
    /\ last.op = "insert" /\ Len(last.events) > 0
    /\ Size(table) >= 2
    /\ Observe(table) = Observe(shadow)

\* C8: erase(k) for a key k with contains(k) false leaves size(), capacity
\* and the result of contains for every key unchanged.
C8_EraseMissing ==
    (last.op = "erase" /\ last.key \notin last.pre.contained) =>
        Observe(table) = last.pre

\* An erase of a key that is not contained in a table that holds others.
C8_Witness ==
    /\ last.op = "erase" /\ last.key \notin last.pre.contained
    /\ last.pre.size >= 2 /\ last.pre.capacity > last.pre.size
    /\ Observe(table) = last.pre

\* C15: the set is the map minus the value payload: after the same calls of
\* insert, erase and clear with the same keys, the two have the same
\* capacity, the same hash markers, the same size() and the same contains()
\* results.
C15_SetIsMap ==
    /\ set_capacity(twin) = map_capacity(table)
    /\ twin.M_hdata = table.M_hdata
    /\ set_size(twin) = map_size(table)
    /\ \A k \in Keys : set_contains(twin, k) = map_contains(table, k)

\* A map and a set grown to eight slots, with an empty slot before an entry
\* and the elements of the set equal to the keys of the map.
C15_Witness ==
    /\ map_capacity(table) = 8 /\ set_capacity(twin) = 8
    /\ map_size(table) >= 2
    /\ \E i \in 1..7 : /\ table.M_hdata[i] = SizeTZero
                        /\ table.M_kdata[i] = NoKey
                        /\ table.M_hdata[i + 1] # SizeTZero
    /\ \A i \in 1..8 : table.M_hdata[i] # SizeTZero =>
                            twin.M_vdata[i] = table.M_kdata[i]

\* C16: every key present in the table occupies exactly one slot: no two
\* occupied slots hold the same stored hash.
C16_OneSlotPerHash ==
    \A i, j \in Occupied(table) :
        table.M_hdata[i] = table.M_hdata[j] => i = j

\* C17: every occupied slot i satisfies hash_buffer[i] == hash(key_buffer[i]),
\* also after growth reinsertion and after an overwrite by a hash-equal key.
C17_StoredHash ==
    \A i \in Occupied(table) :
        /\ StoredKey(table, i) \in Keys
        /\ table.M_hdata[i] = HashOf[StoredKey(table, i)]

\* A table grown to eight slots by reinsertion in which colB was just
\* inserted over colA, its hash-equal key, or colA over colB before.
C17_Witness ==
    /\ ~since.erased /\ {"colA", "colB", "even6"} \subseteq inserted
    /\ Capacity(table) = 8
    /\ last.op = "insert" /\ last.key = "colB"
    /\ \E i \in Occupied(table) :
           StoredKey(table, i) = "colB" /\ table.M_hdata[i] = HashOf["colA"]

\* C18 as claimed: an insert needs at most one growth event: the same call
\* never grows the table a second time.
C18_OneGrowth == last.op = "insert" => Len(last.events) <= 1

\* C18 amended: an insert can need more than one growth event, because the
\* restarted probe can run off the end again; each growth event of the call
\* starts from the table the one before left, takes the capacity from 0 to 1
\* or doubles it, and when the call returns the slot of the key is within
\* bounds.
C18_GrowthChain ==
    last.op = "insert" =>
        /\ \A i \in 1..Len(last.events) :
               /\ last.events[i].before =
                      IF i = 1 THEN last.pre ELSE last.events[i - 1].after
               /\ last.events[i].after.capacity =
                      IF last.events[i].before.capacity = 0 THEN 1
                      ELSE 2 * last.events[i].before.capacity
        /\ Capacity(table) =
               IF Len(last.events) = 0 THEN last.pre.capacity
               ELSE last.events[Len(last.events)].after.capacity
        /\ Contains(table, last.key)

\* An insert into a set that grew it twice, from two slots to eight.
C18_Witness ==
    /\ kind = "set" /\ last.op = "insert"
    /\ Len(last.events) = 2
    /\ last.pre.capacity = 2 /\ Capacity(table) = 8
    /\ Contains(table, last.key)

\* C19: every insert call terminates: for every reachable table and every
\* key the probe / grow / restart loop is left after finitely many growth
\* events, each of which raises the capacity; reserve(1) is never asked of a
\* table that has slots.
C19_InsertEnds ==
    \A k \in Keys :
        LET f == InsertInto(table, k, 10)
        IN  /\ ~f.looping /\ ~f.overflow
            /\ \A i \in 1..Len(f.events) :
                   Capacity(f.events[i].after) > Capacity(f.events[i].before)

\* An insert into a table that erase had emptied while it kept its slots
\* (empty() held and reserve(1) would have done nothing): it ended without
\* growth.
C19_Witness ==
    /\ last.op = "insert"
    /\ last.pre.size = 0 /\ last.pre.capacity >= 2
    /\ Len(last.events) = 0
    /\ Size(table) = 1 /\ Capacity(table) = last.pre.capacity

\* C20: growth does not destroy entries: size() right after a growth event
\* equals size() right before it.
C20_GrowthKeepsSize ==
    last.op = "insert" =>
        \A i \in 1..Len(last.events) :
            last.events[i].after.size = last.events[i].before.size

\* C21: reinsertion during growth never re-enters growth: in every reachable
\* table and for every key, no reserve made by an insert is entered while
\* another reserve is reinserting, so every growth event is at depth 0.
C21_NoNestedGrowth ==
    /\ \A k \in Keys :
           LET f == InsertInto(table, k, 10)
           IN  /\ ~f.reentered /\ ~f.overflow
               /\ \A i \in 1..Len(f.events) : f.events[i].depth = 0
    /\ ~last.reentered

\* An insert that grew a table of four slots holding two entries, which
\* were both reinserted, in a growth event at depth 0.
C21_Witness ==
    /\ last.op = "insert"
    /\ Len(last.events) >= 1
    /\ last.pre.capacity = 4 /\ last.pre.size = 2
    /\ last.events[1].after.size = 2
    /\ last.events[1].depth = 0
    /\ ~last.reentered

\* The value in the slot that the probe for the key ends at.
ValueAt(t, key) == t.M_vdata[map_slot(t, key) + 1]

\* C22: in every reachable state of the map, for every key k with
\* contains(k) true, the value in the slot k's probe finds is the value of
\* the most recent insert(k, .); stated for the keys the caller uses, no two
\* of which have the same hash.
C22_LatestValue ==
    \A k \in caller.keys :
        map_contains(table, k) => ValueAt(table, k) = recent[k]

\* C23: capacity grows monotonically: no call but clear lowers the capacity
\* (insert and erase leave it or raise it; contains, size and empty change
\* nothing), and clear sets it to 0.
C23_CapacityMonotone ==
    [][IF last'.op = "clear" THEN Capacity(table') = 0
       ELSE Capacity(table') >= Capacity(table)]_vars

\* An erase that emptied a table of at least four slots, which kept them.
C23_Witness ==
    /\ last.op = "erase"
    /\ last.pre.size = 1 /\ Size(table) = 0
    /\ last.pre.capacity >= 4
    /\ Capacity(table) = last.pre.capacity

\* C24: every growth event of an insert takes the capacity from 0 to 1 or
\* to exactly twice what it was: whenever a probe runs out of bounds,
\* empty() holds exactly when the capacity is 0; so in every reachable state
\* the capacity is 0 or a power of two.
C24_Doubling ==
    /\ Capacity(table) = 0 \/ \E e \in 0..MaxCapacity : Capacity(table) = 2 ^ e
    /\ \A k \in Keys :
           LET f == InsertInto(table, k, 10)
           IN  /\ ~f.overflow
               /\ \A i \in 1..Len(f.events) :
                      /\ Empty(f.events[i].before) <=> Capacity(f.events[i].before) = 0
                      /\ Capacity(f.events[i].after) =
                             IF Capacity(f.events[i].before) = 0 THEN 1
                             ELSE 2 * Capacity(f.events[i].before)

\* An insert into a set of four slots whose probe ran out of bounds though
\* a slot was free, and which left the set with eight slots.
C24_Witness ==
    /\ kind = "set" /\ last.op = "insert"
    /\ Len(last.events) = 1
    /\ last.pre.capacity = 4 /\ last.pre.size \in 1..3
    /\ Capacity(table) = 8

C26_ZeroNotCounted ==
    (last.op = "insert" /\ HashOf[last.key] = SizeTZero) =>
        Size(table) = last.pre.size

C28_ZeroCapacity ==
    /\ Capacity(table) = 0 =>
           \A k \in Keys :
               LET f == InsertInto(table, k, 10)
               IN  /\ Slot(table, k) = 1 + 0
                   /\ ~Contains(table, k)
                   /\ EraseFrom(table, k) = table
                   /\ Len(f.events) = 1
                   /\ Capacity(f.t) = 1
                   /\ StoredKey(f.t, 1) = k /\ f.t.M_hdata[1] = HashOf[k]
    /\ (last.op = "insert" /\ last.pre.capacity = 0) =>
           /\ last.pre.contained = {}
           /\ Capacity(table) = 1 /\ StoredKey(table, 1) = last.key
    /\ (last.op = "erase" /\ last.pre.capacity = 0) => Capacity(table) = 0

\* An insert into a table that clear() had left at capacity 0: the table
\* has one slot, which holds the key.
C28_Witness ==
    /\ since.op = "clear"
    /\ last.op = "insert" /\ last.pre.capacity = 0
    /\ HashOf[last.key] # SizeTZero
    /\ Capacity(table) = 1 /\ StoredKey(table, 1) = last.key

\* C29: erase(k) destroys a payload only in an occupied slot whose stored
\* hash is hash(k): for every reachable table and every key, a slot that
\* erase destroys has a non-empty marker equal to the hash of the key and
\* holds an object; when the key is not found nothing is destroyed.
C29_DestroysFound ==
    \A k \in Keys :
        /\ \A i \in Destroyed(table, k) :
               /\ table.M_hdata[i] # SizeTZero
               /\ table.M_hdata[i] = HashOf[k]
               /\ StoredKey(table, i) # NoKey
        /\ ~Contains(table, k) => Destroyed(table, k) = {}

\* C30: after every growth each buffer of the map has room for exactly
\* capacity elements of its own type: capacity * sizeof(size_type) bytes of
\* hash markers, capacity * sizeof(value_type) bytes of values and at least
\* capacity * sizeof(key_type) bytes of keys, whatever the size of the value
\* type.
C30_BuffersFit ==
    LET bytes == map_bytes(table, alloc.sizeof_value)
    IN  /\ bytes.M_hdata = map_capacity(table) * SizeTBytes
        /\ bytes.M_vdata = map_capacity(table) * alloc.sizeof_value
        /\ bytes.M_kdata >= map_capacity(table) * KeySize

\* C31: no entry ever sits before its home slot: in every reachable state
\* every occupied slot j holds a hash h with h mod capacity <= j < capacity
\* (slot j of the code is element j + 1 of the model).
C31_NotBeforeHome ==
    \A i \in Occupied(table) :
        Home(table, i) <= i - 1 /\ i - 1 < Capacity(table)

\* A table that an insert has grown to four slots, with an entry in its
\* home slot and another one behind its home slot.
C31_Witness ==
    /\ last.op = "insert" /\ Len(last.events) >= 1
    /\ Capacity(table) = 4
    /\ \E i \in Occupied(table) : Home(table, i) = i - 1
    /\ \E i \in Occupied(table) : Home(table, i) < i - 1

(***************************************************************************)
(* The claims about the stack and the queue.                               *)
(***************************************************************************)
IsPush(call) == call.op = "push"

IsPop(call) == call.op = "pop"

RECURSIVE Unpopped(_, _, _)
\* The most recent push among the first i calls of a log that none of the
\* later pops took: each pop takes the latest push before it not yet taken.
Unpopped(log, i, taken) ==
    IF i = 0 THEN NoValue
    ELSE IF IsPop(log[i]) THEN Unpopped(log, i - 1, taken + 1)
    ELSE IF taken > 0 THEN Unpopped(log, i - 1, taken - 1)
    ELSE log[i].value

\* C9: the stack is LIFO: after pushes and pops that never pop an empty
\* stack, top() is the most recently pushed element that was not popped and
\* length() is the number of pushes minus the number of pops.
C9_StackLifo ==
    (\A i \in 1..Len(stack_log) : IsPop(stack_log[i]) => ~stack_log[i].empty) =>
        /\ stack_length(stack) =
               Len(SelectSeq(stack_log, IsPush)) - Len(SelectSeq(stack_log, IsPop))
        /\ ~stack_empty(stack) =>
               stack_top(stack) = Unpopped(stack_log, Len(stack_log), 0)

\* Pushes of 10, 20 and 30, two pops and a push of 10: the top is 10 over 10.
C9_Witness ==
    /\ Len(stack_log) = 6
    /\ [i \in 1..6 |-> stack_log[i].op]
           = <<"push", "push", "push", "pop", "pop", "push">>
    /\ [i \in 1..3 |-> stack_log[i].value] = <<10, 20, 30>>
    /\ stack_log[6].value = 10
    /\ stack_top(stack) = 10 /\ stack_length(stack) = 2

\* C10: the queue is FIFO: after pushes and pops that never pop an empty
\* queue, front() is the oldest pushed element not yet popped, back() is the
\* most recently pushed element, the elements leave in the order they were
\* pushed, and size() is the number of pushes minus the number of pops.
C10_QueueFifo ==
    LET pushes == SelectSeq(queue_log, IsPush)
        pops   == SelectSeq(queue_log, IsPop)
    IN  /\ vector_size(queue) = Len(pushes) - Len(pops)
        /\ \A i \in 1..Len(pops) : pops[i].value = pushes[i].value
        /\ ~vector_empty(queue) =>
               /\ vector_front(queue) = pushes[Len(pops) + 1].value
               /\ vector_back(queue) = pushes[Len(pushes)].value

\* Pushes of 10, 20 and 30, two pops and a push of 10: 30 is at the front
\* and 10 at the back, after 10 and 20 left.
C10_Witness ==
    /\ Len(queue_log) = 6
    /\ [i \in 1..6 |-> queue_log[i].op]
           = <<"push", "push", "push", "pop", "pop", "push">>
    /\ [i \in 1..6 |-> queue_log[i].value] = <<10, 20, 30, 10, 20, 10>>
    /\ vector_front(queue) = 30 /\ vector_back(queue) = 10
    /\ vector_size(queue) = 2

(***************************************************************************)
(* The claims about the vector and the array.                              *)
(***************************************************************************)
\* C11: insert(i, v) on a vector of size n with i <= n gives size n + 1 with
\* element i equal to v, the elements below i unchanged and every element
\* formerly at j >= i now at j + 1; push_front(v) makes front() v and keeps
\* the former elements in their order behind it.
C11_InsertShifts ==
    vec_last.op \in {"insert", "push_front"} =>
        LET n == vector_size(vec_last.pre)
            i == vec_last.index
        IN  /\ vector_size(vec) = n + 1
            /\ vec.M_data[i + 1] = vec_last.value
            /\ \A j \in 0..(n - 1) :
                   IF j < i THEN vec.M_data[j + 1] = vec_last.pre.M_data[j + 1]
                   ELSE vec.M_data[j + 2] = vec_last.pre.M_data[j + 1]
            /\ vec_last.op = "push_front" => vector_front(vec) = vec_last.value

\* C12: at(i) signals an out-of-range error exactly when i >= size() and
\* otherwise returns the element at index i; the vector is unchanged in both
\* cases.
C12_AtChecked ==
    vec_last.op = "at" =>
        /\ vec_last.result.signal = "out_of_range"
               <=> vec_last.index >= vector_size(vec_last.pre)
        /\ vec_last.index < vector_size(vec_last.pre) =>
               vec_last.result = Returned(vec_last.pre.M_data[vec_last.index + 1])
        /\ vec = vec_last.pre

\* at(size()) on a vector of two or more elements: the first index that is
\* out of range.
C12_Witness ==
    /\ vec_last.op = "at"
    /\ vector_size(vec) >= 2
    /\ vec_last.index = vector_size(vec)
    /\ vec_last.result.signal = "out_of_range"

\* C13: indexed access to array<T, N> is bounds-checked: a position
\* pos >= N signals an out-of-range error and never returns an element, a
\* position pos < N returns the element stored at pos.
C13_ArrayChecked ==
    arr_last.op \in ArrayAccessors =>
        IF arr_last.index >= ArrayN
        THEN arr_last.result.signal = "out_of_range"
        ELSE arr_last.result = Returned(arr[arr_last.index + 1])

(***************************************************************************)
(* The claims about the hasher.                                            *)
(***************************************************************************)
\* C14: the result of __fnv1hash is in the unsigned 32-bit domain, [0, 2^32),
\* for every byte sequence: the bytes above the fourth are zero.
C14_Hash32 ==
    digest # NotHashed => \A i \in 5..SizeTBytes : digest[i] = 0

\* The FNV-1 fold of a byte sequence, from its last byte back: the fold of
\* the bytes before it, multiplied by the prime, then XORed with the byte;
\* the fold of no bytes is the offset basis.
RECURSIVE Fnv1Fold(_)
Fnv1Fold(bytes) ==
    IF bytes = <<>> THEN ToSizeT(FNV_BASIS32)
    ELSE SizeTXorByte(
             SizeTMul(Fnv1Fold(SubSeq(bytes, 1, Len(bytes) - 1)),
                      ToSizeT(FNV_PRIME32)),
             bytes[Len(bytes)])

\* C32: the hash is the FNV-1 fold: from the offset basis 0x811c9dc5, for
\* each byte in order the accumulator is multiplied by the prime 0x01000193
\* and then XORed with the byte; no bytes give the basis; the one byte 'a'
\* gives 0x811d69050c5d7e, as the compiled function does.
C32_Fnv1Fold ==
    digest # NotHashed =>
        /\ digest = Fnv1Fold(input)
        /\ input = <<>> => digest = <<197, 157, 28, 129, 0, 0, 0, 0>>
        /\ input = <<97>> => digest = <<126, 93, 12, 5, 105, 29, 129, 0>>

\* The hash of at least three bytes, the first two of them different.
C32_Witness ==
    /\ digest # NotHashed
    /\ Len(input) >= 3
    /\ input[1] # input[2]

\* C33: erase(i) on a vector of size n with i < n yields size n - 1, leaves
\* the elements at indices below i and moves every element formerly at
\* j > i to j - 1; pop_front removes the first element in this way and
\* pop_back the last.
C33_EraseShifts ==
    (/\ vec_last.op \in {"erase", "pop_front", "pop_back"}
     /\ IndexLess(vec_last.index, vector_size(vec_last.pre))) =>
        LET n == vector_size(vec_last.pre)
            i == vec_last.index
        IN  /\ vec_last.result = Returned(NoValue)
            /\ vec_last.op = "pop_front" => i = 0
            /\ vec_last.op = "pop_back" => i = n - 1
            /\ vector_size(vec) = n - 1
            /\ Len(vec.M_data) = n - 1
            /\ \A j \in 0..(i - 1) : vec.M_data[j + 1] = vec_last.pre.M_data[j + 1]
            /\ \A j \in (i + 1)..(n - 1) :
                   vec.M_data[(j - 1) + 1] = vec_last.pre.M_data[j + 1]

\* erase(1) on the vector {10, 20, 30}, which leaves {10, 30}.
C33_Witness ==
    /\ vec_last.op = "erase" /\ vec_last.index = 1
    /\ vec_last.pre.M_data = <<10, 20, 30>>
    /\ vec.M_data = <<10, 30>>

\* C34: pop() on an empty queue, that is pop_front, pop_back or erase on a
\* vector of size 0, is safe: it accesses no element outside the buffer (the
\* call does not fail), size() - 1 does not wrap below zero, and the vector
\* stays empty with size() = 0.
C34_EmptyPopSafe ==
    (/\ vec_last.op \in {"erase", "pop_front", "pop_back"}
     /\ vector_size(vec_last.pre) = 0) =>
        /\ vec_last.result.signal = "none"
        /\ vector_size(vec) # IndexMinus(0, 1)
        /\ vector_size(vec) = 0
        /\ vec = vec_last.pre

\* C35: pop() on an empty stack is a no-op: the length stays 0 and no
\* element is accessed, so that the stack is as a fresh one and a later push
\* behaves as on a fresh stack; length() never goes below 0 under any
\* sequence of push, pop and clear, and clear() leaves the stack empty.
C35_EmptyPop ==
    /\ stack_length(stack) >= 0
    /\ stack_length(stack) = Len(stack.m_data)
    /\ stack_empty(stack) =>
           /\ stack = avector_new
           /\ stack_pop(stack) = stack
           /\ \A e \in Elements : stack_push(stack, e) = stack_push(avector_new, e)
    /\ \A i \in 1..Len(stack_log) :
           (stack_log[i].op = "pop" /\ stack_log[i].empty) =>
               (i = Len(stack_log) => stack_length(stack) = 0)
    /\ (stack_log # <<>> /\ stack_log[Len(stack_log)].op = "clear") =>
           stack_length(stack) = 0

\* A pop of a stack that a clear had emptied, and a push after it: the stack
\* holds the one element pushed.
C35_Witness ==
    /\ Len(stack_log) = 5
    /\ [i \in 1..5 |-> stack_log[i].op] = <<"push", "push", "clear", "pop", "push">>
    /\ stack_log[4].empty
    /\ stack = stack_push(avector_new, stack_log[5].value)
    /\ stack_length(stack) = 1

RECURSIVE ProductCarry(_, _, _, _)
\* What count * size exceeds the 8 bytes of a std::size_t by: the carry out
\* of the highest byte, 0 when the product is representable.
ProductCarry(count, size, k, carry) ==
    IF k > SizeTBytes THEN carry
    ELSE ProductCarry(count, size, k + 1, (count[k] * size + carry) \div 256)

\* C36: allocate(count) returns null whenever count * sizeof(T) bytes cannot
\* be provided, and a block it returns is never smaller than
\* count * sizeof(T) bytes: the product is not taken modulo 2^64.
C36_AllocateFits ==
    (block # NoBlock /\ ~block.pointer.null) =>
        /\ ProductCarry(block.count, block.sizeof_value, 1, 0) = 0
        /\ block.pointer.bytes =
               SizeTMul(block.count, ToSizeT(<<block.sizeof_value>>))

\* C37: copy-assigning a vector leaves the source unchanged and makes the
\* target an element-wise copy of it, also when source and target are the
\* same object: v = v leaves the size and the elements of v unchanged.
C37_AssignCopies ==
    /\ vec_last.op = "assign" =>
           /\ vec = vec_last.pre
           /\ vector_size(other) = vector_size(vec)
           /\ other.M_data = vec.M_data
    /\ vec_last.op = "assign_self" =>
           /\ vector_size(vec) = vector_size(vec_last.pre)
           /\ vec.M_data = vec_last.pre.M_data

====
